---- MODULE Spec2Model ----
(***************************************************************************)
(* A model of gensim/summarization/summarizer.py: the TextRank summarizer. *)
(*                                                                         *)
(* Four specifications share one set of variables:                         *)
(*   SpecGraph   _set_graph_edge_weights, one (i, j, weight) of the BM25   *)
(*               table per step, then the all-zero fallback;               *)
(*   SpecRank    summarize_corpus from its entry to its return;            *)
(*   SpecSelect  _extract_important_sentences on a ranked document list;   *)
(*   Spec        summarize from its entry to its return or its raise.      *)
(*                                                                         *)
(* Weights are integers in units of 0.0005, so WEIGHT_THRESHOLD (1e-3) is  *)
(* 2 and the fallback weight 1 is 2000.  A ratio is a fraction num/den.    *)
(* A text is a sequence of one-character strings.  The bag of words of a   *)
(* document is named by a number: equal numbers are equal bags.            *)
(***************************************************************************)
EXTENDS Integers, Sequences, FiniteSets, TLC

VARIABLES
    pc,                  \* position in the code
    sentences,           \* summarize: the segmented sentences
    ratio,               \* summarize: parameter ratio
    word_count,          \* summarize: parameter word_count (None or <<number>>)
    nb_sentences,        \* summarize: parameter nb_sentences (None or <<number>>)
    split,               \* summarize: parameter split
    corpus,              \* the corpus handed to summarize_corpus
    ratio_value,         \* the ratio handed to summarize_corpus
    hashable_corpus,     \* summarize_corpus: hashable_corpus (sorted in place)
    graph,               \* summarize_corpus: graph
    i,                   \* _set_graph_edge_weights: row of the weight table
    j,                   \* _set_graph_edge_weights: column of the weight table
    weight,              \* _set_graph_edge_weights: the weight just read
    strongSeen,          \* history: some weight with i # j reached the threshold
    pagerank_scores,     \* summarize_corpus: pagerank_scores
    most_important_docs, \* what summarize_corpus returned
    important_sentences, \* _extract_important_sentences: important_sentences
    extracted_sentences, \* summarize: extracted_sentences
    result               \* what summarize returned, or that it raised

params == <<sentences, ratio, word_count, nb_sentences, split>>
ranker == <<hashable_corpus, graph, i, j, weight, strongSeen, pagerank_scores>>
selector == <<important_sentences, extracted_sentences>>
vars == <<pc, params, corpus, ratio_value, ranker, most_important_docs, selector, result>>

----------------------------------------------------------------------------
(* Bounds of the model. *)

MaxSentences == 3
MaxCorpus == 4
MaxNodes == 3
MaxWeight == 3
MaxScore == 1
RatioDen == 4
MaxWordCount == 2
MaxNb == 2

(* Program constants. *)

WEIGHT_THRESHOLD == 2
UnitWeight == 2000

\* An optional number is None or <<n>>.
None == <<>>
NoResult == [kind |-> "none", value |-> <<>>]
Raised == [kind |-> "ValueError", value |-> <<>>]
NEWLINE == "\n"
SPACE == " "

----------------------------------------------------------------------------
(* Sequences. *)

Range(s) == {s[k] : k \in DOMAIN s}

Take(s, n) == SubSeq(s, 1, IF n < Len(s) THEN n ELSE Len(s))

Reverse(s) == [k \in 1..Len(s) |-> s[Len(s) + 1 - k]]

Min(a, b) == IF a < b THEN a ELSE b

Abs(x) == IF x < 0 THEN -x ELSE x

----------------------------------------------------------------------------
(* Documents.  A document of the corpus is a list of (id, count) pairs and *)
(* its hashable key is the tuple of the same pairs; bag b stands for the   *)
(* pairs.                                                                  *)

ListDoc(b) == [type |-> "list", bow |-> b]
TupleDoc(b) == [type |-> "tuple", bow |-> b]

\* tuple(doc)
AsTuple(doc) == TupleDoc(doc.bow)

\* list(doc)
AsList(doc) == ListDoc(doc.bow)

\* Lines 324-338.
BuildHasheableCorpus(c) == [k \in 1..Len(c) |-> AsTuple(c[k])]

----------------------------------------------------------------------------
(* The weighted graph (gensim.summarization.graph.Graph): nodes in         *)
(* insertion order, and an undirected edge stored under both directions.   *)

EmptyEdges == [e \in {} |-> 0]
NoScores == [d \in {} |-> 0]
NoGraph == [nodes |-> <<>>, edges |-> EmptyEdges]

HasEdge(g, e) == e \in DOMAIN g.edges /\ <<e[2], e[1]>> \in DOMAIN g.edges

EdgeWeight(g, e) == IF e \in DOMAIN g.edges THEN g.edges[e] ELSE 0

AddEdge(g, e, wt) ==
    IF HasEdge(g, e) THEN g
    ELSE [g EXCEPT !.edges =
            [x \in DOMAIN g.edges \cup {e, <<e[2], e[1]>>} |->
                IF x \in {e, <<e[2], e[1]>>} THEN wt ELSE g.edges[x]]]

DelEdge(g, e) ==
    [g EXCEPT !.edges =
        [x \in DOMAIN g.edges \ {e, <<e[2], e[1]>>} |-> g.edges[x]]]

Neighbors(g, u) == {v \in Range(g.nodes) : <<u, v>> \in DOMAIN g.edges}

RECURSIVE AddNodes(_, _)
AddNodes(nodes, seq) ==
    IF seq = <<>> THEN nodes
    ELSE AddNodes(IF Head(seq) \in Range(nodes) THEN nodes ELSE Append(nodes, Head(seq)),
                  Tail(seq))

BuildGraph(seq) == [nodes |-> AddNodes(<<>>, seq), edges |-> EmptyEdges]

RemoveUnreachableNodes(g) ==
    LET keep == {u \in Range(g.nodes) :
                    \E v \in Neighbors(g, u) : EdgeWeight(g, <<u, v>>) # 0}
    IN  [nodes |-> SelectSeq(g.nodes, LAMBDA u : u \in keep),
         edges |-> [e \in {x \in DOMAIN g.edges : x[1] \in keep /\ x[2] \in keep} |->
                        g.edges[e]]]

----------------------------------------------------------------------------
(* _set_graph_edge_weights and _create_valid_graph. *)

\* The ordered pairs (a, b) of 1..n x 1..n in row-major order.
OrderedPairs(n) == [k \in 1..(n * n) |-> <<((k - 1) \div n) + 1, ((k - 1) % n) + 1>>]

\* SetEdgeWeight without the has_edge test: a later direction replaces the weight.
SetEdgeWeightOverwrite(g, a, b, w) ==
    IF a = b \/ w < WEIGHT_THRESHOLD THEN g
    ELSE LET edge == <<g.nodes[a], g.nodes[b]>>
         IN  AddEdge(DelEdge(g, edge), edge, w)

\* Lines 92-98, for one (j, weight) of row i.
SetEdgeWeight(g, a, b, w) ==
    IF a = b \/ w < WEIGHT_THRESHOLD THEN g
    ELSE LET edge == <<g.nodes[a], g.nodes[b]>>
         IN  IF ~HasEdge(g, edge) THEN AddEdge(g, edge, w) ELSE g

\* Lines 119-127, for one (i, j).
ValidEdge(g, a, b) ==
    IF a = b THEN g
    ELSE LET edge == <<g.nodes[a], g.nodes[b]>>
         IN  AddEdge(IF HasEdge(g, edge) THEN DelEdge(g, edge) ELSE g, edge, UnitWeight)

RECURSIVE ValidEdges(_, _)
ValidEdges(g, pairs) ==
    IF pairs = <<>> THEN g
    ELSE ValidEdges(ValidEdge(g, Head(pairs)[1], Head(pairs)[2]), Tail(pairs))

CreateValidGraph(g) == ValidEdges(g, OrderedPairs(Len(g.nodes)))

\* AllWeightsZero with any() for all(): false of a graph without edges.
AnyWeightZero(g) == \E e \in DOMAIN g.edges : EdgeWeight(g, e) = 0

\* Line 102.
AllWeightsZero(g) == \A e \in DOMAIN g.edges : EdgeWeight(g, e) = 0

\* Lines 100-103.
HandleZeroWeights(g) == IF AllWeightsZero(g) THEN CreateValidGraph(g) ELSE g

FineWeights == 0..MaxWeight
CoarseWeights == {0, WEIGHT_THRESHOLD}

\* What follows the read of entry (i, j): the next entry, or the end of the table.
LastPair == i = Len(graph.nodes) /\ j = Len(graph.nodes)

\* Lines 87-98: one entry of the BM25 table.  The scoring function is outside
\* this file: its weight for (i, j) is any member of W, and 0 stands for an
\* entry the bag-of-words row leaves out.
ProcessPair(W) ==
    /\ pc = "weights"
    /\ \E w \in W :
        /\ weight' = w
        /\ graph' = SetEdgeWeight(graph, i, j, w)
        /\ strongSeen' = (strongSeen \/ (i # j /\ w >= WEIGHT_THRESHOLD))
    /\ IF LastPair
       THEN pc' = "zero_check" /\ UNCHANGED <<i, j>>
       ELSE /\ pc' = "weights"
            /\ IF j = Len(graph.nodes)
               THEN i' = i + 1 /\ j' = 1
               ELSE i' = i /\ j' = j + 1
    /\ UNCHANGED <<params, corpus, ratio_value, hashable_corpus, pagerank_scores,
                   most_important_docs, selector, result>>

\* Lines 100-103, and the return of _set_graph_edge_weights.
ZeroCheck ==
    /\ pc = "zero_check"
    /\ graph' = HandleZeroWeights(graph)
    /\ pc' = "weighted"
    /\ UNCHANGED <<params, corpus, ratio_value, hashable_corpus, i, j, weight,
                   strongSeen, pagerank_scores, most_important_docs, selector, result>>

\* A graph of n nodes without edges, as _build_graph leaves it.
InitGraph ==
    /\ \E n \in 0..MaxNodes :
        /\ graph = BuildGraph([k \in 1..n |-> TupleDoc(k)])
        /\ pc = IF n = 0 THEN "zero_check" ELSE "weights"
    /\ i = 1 /\ j = 1 /\ weight = 0 /\ strongSeen = FALSE
    /\ sentences = <<>> /\ ratio = [num |-> 1, den |-> 1]
    /\ word_count = None /\ nb_sentences = None /\ split = FALSE
    /\ corpus = <<>> /\ ratio_value = [num |-> 1, den |-> 1]
    /\ hashable_corpus = <<>> /\ pagerank_scores = NoScores
    /\ most_important_docs = <<>>
    /\ important_sentences = <<>> /\ extracted_sentences = <<>>
    /\ result = NoResult

NextGraph == ProcessPair(FineWeights) \/ ZeroCheck

SpecGraph == InitGraph /\ [][NextGraph]_vars

----------------------------------------------------------------------------
(* summarize_corpus. *)

\* pagerank_scores.get(doc, 0)
ScoreOf(scores, doc) == IF doc \in DOMAIN scores THEN scores[doc] ELSE 0

\* A stable ascending sort by score: each element goes behind those already
\* placed whose score is not larger.
RECURSIVE InsertByScore(_, _, _)
InsertByScore(sorted, doc, scores) ==
    IF sorted = <<>> THEN <<doc>>
    ELSE IF ScoreOf(scores, Head(sorted)) <= ScoreOf(scores, doc)
         THEN <<Head(sorted)>> \o InsertByScore(Tail(sorted), doc, scores)
         ELSE <<doc>> \o sorted

RECURSIVE SortAscending(_, _, _)
SortAscending(sorted, rest, scores) ==
    IF rest = <<>> THEN sorted
    ELSE SortAscending(InsertByScore(sorted, Head(rest), scores), Tail(rest), scores)

\* SortByScore that sorts ascending and then reverses: equal scores come out
\* in reverse corpus order.
SortByScoreUnstable(docs, scores) == Reverse(SortAscending(<<>>, docs, scores))

\* Line 395: list.sort(key=..., reverse=True) reverses the list, sorts it
\* ascending and stable, and reverses it again.
SortByScore(docs, scores) == Reverse(SortAscending(<<>>, Reverse(docs), scores))

\* NumberOfDocs that rounds up.
NumberOfDocsCeil(n, r) == (n * r.num + r.den - 1) \div r.den

\* Line 397: int(len(corpus) * ratio).
NumberOfDocs(n, r) == (n * r.num) \div r.den

\* Line 397.
ImportantDocs(sorted, n, r) ==
    LET head == Take(sorted, NumberOfDocs(n, r))
    IN  [k \in 1..Len(head) |-> AsList(head[k])]

\* Lines 365-380, up to the first read of the weight table.
CorpusBegin ==
    /\ pc = "sc_begin"
    /\ hashable_corpus' = BuildHasheableCorpus(corpus)
    /\ IF Len(corpus) = 0
       THEN /\ most_important_docs' = <<>>
            /\ pc' = "sc_done"
            /\ UNCHANGED graph
       ELSE /\ graph' = BuildGraph(hashable_corpus')
            /\ pc' = "weights"
            /\ UNCHANGED most_important_docs
    /\ i' = 1 /\ j' = 1
    /\ UNCHANGED <<params, corpus, ratio_value, weight, strongSeen, pagerank_scores,
                   selector, result>>

\* Line 383.
Prune ==
    /\ pc = "weighted"
    /\ graph' = RemoveUnreachableNodes(graph)
    /\ pc' = "node_check"
    /\ UNCHANGED <<params, corpus, ratio_value, hashable_corpus, i, j, weight,
                   strongSeen, pagerank_scores, most_important_docs, selector, result>>

\* Lines 387-389.
TooFewNodes ==
    /\ pc = "node_check"
    /\ Len(graph.nodes) < 3
    /\ most_important_docs' = <<>>
    /\ pc' = "sc_done"
    /\ UNCHANGED <<params, corpus, ratio_value, ranker, selector, result>>

\* Lines 387 and 392.  The ranking procedure is outside this file: it gives
\* every node left in the graph a score of 0..MaxScore.  The graph is not
\* read after this line, and the model lets go of it here.
Pagerank ==
    /\ pc = "node_check"
    /\ Len(graph.nodes) >= 3
    /\ \E scores \in [Range(graph.nodes) -> 0..MaxScore] : pagerank_scores' = scores
    /\ graph' = NoGraph
    /\ pc' = "sort"
    /\ UNCHANGED <<params, corpus, ratio_value, hashable_corpus, i, j, weight,
                   strongSeen, most_important_docs, selector, result>>

\* Lines 395-397.
SortAndReturn ==
    /\ pc = "sort"
    /\ hashable_corpus' = SortByScore(hashable_corpus, pagerank_scores)
    /\ most_important_docs' = ImportantDocs(hashable_corpus', Len(corpus), ratio_value)
    /\ pc' = "sc_done"
    /\ UNCHANGED <<params, corpus, ratio_value, graph, i, j, weight, strongSeen,
                   pagerank_scores, selector, result>>

\* The corpora of n documents up to the naming of bags: document k is a bag
\* seen before or the next unseen one.
RECURSIVE MaxOf(_)
MaxOf(S) == IF S = {} THEN 0
            ELSE LET x == CHOOSE y \in S : TRUE
                     m == MaxOf(S \ {x})
                 IN  IF x > m THEN x ELSE m

BagNamings(n) == {b \in [1..n -> 1..n] :
                \A k \in 1..n : b[k] <= 1 + MaxOf({b[m] : m \in 1..(k - 1)})}

Ratios == {[num |-> k, den |-> RatioDen] : k \in 1..RatioDen}

InitRank ==
    /\ pc = "sc_begin"
    /\ \E n \in 0..MaxCorpus : \E b \in BagNamings(n) : corpus = [k \in 1..n |-> ListDoc(b[k])]
    /\ ratio_value \in Ratios
    /\ graph = NoGraph
    /\ i = 1 /\ j = 1 /\ weight = 0 /\ strongSeen = FALSE
    /\ sentences = <<>> /\ ratio = ratio_value
    /\ word_count = None /\ nb_sentences = None /\ split = FALSE
    /\ hashable_corpus = <<>> /\ pagerank_scores = NoScores
    /\ most_important_docs = <<>>
    /\ important_sentences = <<>> /\ extracted_sentences = <<>>
    /\ result = NoResult

SummarizeCorpus ==
    \/ CorpusBegin
    \/ ProcessPair(CoarseWeights)
    \/ ZeroCheck
    \/ Prune
    \/ TooFewNodes
    \/ Pagerank
    \/ SortAndReturn

SpecRank == InitRank /\ [][SummarizeCorpus]_vars

----------------------------------------------------------------------------
(* Sentences (SyntacticUnit): the position in the text, the bag of words   *)
(* of the token string, and the display text.  Two sentences are the same  *)
(* object exactly when they have the same index.                           *)

ShortText == <<"a">>
LongText == <<"a", SPACE, "b">>

\* len(text.split()): the number of maximal runs without a space.
WordsIn(text) ==
    Cardinality({k \in 1..Len(text) :
                    text[k] # SPACE /\ (k = 1 \/ text[k - 1] = SPACE)})

\* Lines 192-194: one document per sentence, in order; equal token strings
\* give equal documents.
BuildCorpus(sents) == [k \in 1..Len(sents) |-> ListDoc(sents[k].token)]

\* DictSet that keeps the value a key already has.
DictSetFirst(dict, key, val) ==
    [d \in DOMAIN dict \cup {key} |-> IF d \in DOMAIN dict THEN dict[d] ELSE val]

\* dict[key] = val
DictSet(dict, key, val) ==
    [d \in DOMAIN dict \cup {key} |-> IF d = key THEN val ELSE dict[d]]

\* Line 216: dict(zip(keys, vals)) sets the pairs in order.
RECURSIVE DictOfZip(_, _, _)
DictOfZip(dict, keys, vals) ==
    IF keys = <<>> \/ vals = <<>> THEN dict
    ELSE DictOfZip(DictSet(dict, Head(keys), Head(vals)), Tail(keys), Tail(vals))

\* Lines 215-217.
GetImportantSentences(sents, c, important_docs) ==
    LET sentences_by_corpus == DictOfZip(NoScores, BuildHasheableCorpus(c), sents)
    IN  [k \in 1..Len(important_docs) |-> sentences_by_corpus[AsTuple(important_docs[k])]]

\* Lines 240-251.
RECURSIVE WordCountLoop(_, _, _, _)
WordCountLoop(selected, length, rest, wc) ==
    IF rest = <<>> THEN selected
    ELSE LET words_in_sentence == WordsIn(Head(rest).text)
         IN  IF Abs(wc - length - words_in_sentence) > Abs(wc - length)
             THEN selected
             ELSE WordCountLoop(Append(selected, Head(rest)),
                                length + words_in_sentence, Tail(rest), wc)

\* Lines 236-251.
GetSentencesWithWordCount(sents, wc) == WordCountLoop(<<>>, 0, sents, wc)

\* Lines 260-264; k is the 0-based index i of the code.
RECURSIVE BestSentencesLoop(_, _, _, _, _)
BestSentencesLoop(selected, count, k, sents, nb) ==
    IF count <= nb /\ k < Len(sents)
    THEN IF sents[k + 1] \notin selected
         THEN BestSentencesLoop(selected \cup {sents[k + 1]}, count + 1, k + 1, sents, nb)
         ELSE BestSentencesLoop(selected, count, k + 1, sents, nb)
    ELSE selected

\* Lines 254-264: the set before list() orders it.
GroupOfBestSentences(sents, nb) == BestSentencesLoop({sents[1]}, 1, 1, sents, nb)

\* Line 266: list(set) lists the members once each, in an order the code
\* does not fix.
ListsOf(S) ==
    {q \in [1..Cardinality(S) -> S] : \A a, b \in 1..Cardinality(S) : a # b => q[a] # q[b]}

\* Lines 290-299.
ExtractImportantSentences ==
    /\ pc = "extract"
    /\ important_sentences' = GetImportantSentences(sentences, corpus, most_important_docs)
    /\ IF word_count # None
       THEN extracted_sentences' = GetSentencesWithWordCount(important_sentences', word_count[1])
       ELSE IF nb_sentences # None
       THEN extracted_sentences' \in ListsOf(GroupOfBestSentences(important_sentences', nb_sentences[1]))
       ELSE extracted_sentences' = important_sentences'
    /\ pc' = "extracted"
    /\ UNCHANGED <<params, corpus, ratio_value, ranker, most_important_docs, result>>

----------------------------------------------------------------------------
(* summarize. *)

Text(chars) == [kind |-> "str", value |-> chars]
List(items) == [kind |-> "list", value |-> items]

\* EmptyResult without the test of split.
EmptyResultAlwaysString(sp) == Text(<<>>)

\* Lines 445 and 467: [] if split else u"".
EmptyResult(sp) == IF sp THEN List(<<>>) ELSE Text(<<>>)

\* "\n".join(texts)
RECURSIVE JoinLines(_)
JoinLines(texts) ==
    IF texts = <<>> THEN <<>>
    ELSE IF Len(texts) = 1 THEN Head(texts)
    ELSE Head(texts) \o <<NEWLINE>> \o JoinLines(Tail(texts))

\* Lines 319-321.
FormatResults(extracted, sp) ==
    LET texts == [k \in 1..Len(extracted) |-> extracted[k].text]
    IN  IF sp THEN List(texts) ELSE Text(JoinLines(texts))

\* InputCheck that lets a single sentence through.
InputCheckNoError(sents) == IF Len(sents) = 0 THEN "empty" ELSE "ok"

\* Lines 443-449.
InputCheck(sents) ==
    IF Len(sents) = 0 THEN "empty"
    ELSE IF Len(sents) = 1 THEN "error"
    ELSE "ok"

One == [num |-> 1, den |-> 1]

\* Lines 458-460.
RatioValue(r, wc, nb) == IF wc # None \/ nb # None THEN One ELSE r

\* Lines 440-462, up to the call of summarize_corpus.
SummarizeBegin ==
    /\ pc = "summarize"
    /\ IF InputCheck(sentences) = "empty"
       THEN /\ result' = EmptyResult(split)
            /\ pc' = "returned"
            /\ UNCHANGED <<corpus, ratio_value>>
       ELSE IF InputCheck(sentences) = "error"
       THEN /\ result' = Raised
            /\ pc' = "raised"
            /\ UNCHANGED <<corpus, ratio_value>>
       ELSE /\ corpus' = BuildCorpus(sentences)
            /\ ratio_value' = RatioValue(ratio, word_count, nb_sentences)
            /\ pc' = "sc_begin"
            /\ UNCHANGED result
    /\ UNCHANGED <<params, ranker, most_important_docs, selector>>

\* Lines 462-470: summarize_corpus has returned.
SummarizeRanked ==
    /\ pc = "sc_done"
    /\ IF most_important_docs = <<>>
       THEN result' = EmptyResult(split) /\ pc' = "returned"
       ELSE pc' = "extract" /\ UNCHANGED result
    /\ UNCHANGED <<params, corpus, ratio_value, ranker, most_important_docs, selector>>

\* Line 477: the sentences themselves are returned (lines 473 and 475 are
\* comments).
SummarizeReturn ==
    /\ pc = "extracted"
    /\ result' = [kind |-> "sentences", value |-> extracted_sentences]
    /\ pc' = "returned"
    /\ UNCHANGED <<params, corpus, ratio_value, ranker, most_important_docs, selector>>

\* The texts given to n sentences: all short, all long, or alternating.
TextChoices(n) ==
    {[k \in 1..n |-> ShortText], [k \in 1..n |-> LongText],
     [k \in 1..n |-> IF k % 2 = 1 THEN ShortText ELSE LongText],
     [k \in 1..n |-> IF k % 2 = 1 THEN LongText ELSE ShortText]}

SentenceLists(n) ==
    {[k \in 1..n |-> [index |-> k - 1, token |-> b[k], text |-> t[k]]] :
        b \in BagNamings(n), t \in TextChoices(n)}

\* Line 400: ratio=0.2.
DefaultRatio == [num |-> 1, den |-> 5]

WordCounts == {None} \cup {<<w>> : w \in 0..MaxWordCount}
NbChoices == {None} \cup {<<b>> : b \in 1..MaxNb}

\* ratio alone, or the default ratio with word_count, nb_sentences or both.
Targets ==
    {[ratio |-> r, word_count |-> None, nb_sentences |-> None] : r \in Ratios}
    \cup {[ratio |-> DefaultRatio, word_count |-> w, nb_sentences |-> b] :
            w \in WordCounts, b \in NbChoices}

Init ==
    /\ pc = "summarize"
    /\ \E n \in 0..MaxSentences : sentences \in SentenceLists(n)
    /\ \E t \in Targets :
        ratio = t.ratio /\ word_count = t.word_count /\ nb_sentences = t.nb_sentences
    /\ split \in BOOLEAN
    /\ corpus = <<>> /\ ratio_value = ratio
    /\ graph = NoGraph
    /\ i = 1 /\ j = 1 /\ weight = 0 /\ strongSeen = FALSE
    /\ hashable_corpus = <<>> /\ pagerank_scores = NoScores
    /\ most_important_docs = <<>>
    /\ important_sentences = <<>> /\ extracted_sentences = <<>>
    /\ result = NoResult

Next ==
    \/ SummarizeBegin
    \/ SummarizeCorpus
    \/ SummarizeRanked
    \/ ExtractImportantSentences
    \/ SummarizeReturn

Spec == Init /\ [][Next]_vars

\* _extract_important_sentences as summarize calls it: summarize_corpus has
\* returned at least one document, so at least 3 documents had a score.
InitSelect ==
    /\ pc = "extract"
    /\ \E n \in 3..MaxCorpus : sentences \in SentenceLists(n)
    /\ \E t \in Targets :
        ratio = t.ratio /\ word_count = t.word_count /\ nb_sentences = t.nb_sentences
    /\ split = FALSE
    /\ corpus = BuildCorpus(sentences)
    /\ ratio_value = RatioValue(ratio, word_count, nb_sentences)
    /\ graph = NoGraph
    /\ i = 1 /\ j = 1 /\ weight = 0 /\ strongSeen = FALSE
    /\ pagerank_scores \in [Range(BuildHasheableCorpus(corpus)) -> 0..MaxScore]
    /\ Cardinality(DOMAIN pagerank_scores) >= 3
    /\ hashable_corpus = SortByScore(BuildHasheableCorpus(corpus), pagerank_scores)
    /\ most_important_docs = ImportantDocs(hashable_corpus, Len(corpus), ratio_value)
    /\ most_important_docs # <<>>
    /\ important_sentences = <<>> /\ extracted_sentences = <<>>
    /\ result = NoResult

NextSelect == ExtractImportantSentences

SpecSelect == InitSelect /\ [][NextSelect]_vars

----------------------------------------------------------------------------
(* C9: while the weight table is read in row-major order the graph has no  *)
(* self-edges and one weight per unordered pair, and reading entry (i, j)  *)
(* never changes the weight of an edge that exists: it creates the edge    *)
(* {i, j} with the weight just read exactly when i # j, that weight is at  *)
(* or above the threshold and the edge does not exist yet, so the first    *)
(* direction read wins and the later reverse direction is discarded.       *)

NoSelfEdges == \A e \in DOMAIN graph.edges : e[1] # e[2]

OneWeightPerPair ==
    \A e \in DOMAIN graph.edges :
        /\ <<e[2], e[1]>> \in DOMAIN graph.edges
        /\ graph.edges[<<e[2], e[1]>>] = graph.edges[e]

ReadKeepsFirstWeight ==
    (pc = "weights") =>
        LET edge == <<graph.nodes[i], graph.nodes[j]>>
            back == <<graph.nodes[j], graph.nodes[i]>>
            creates == i # j /\ weight' >= WEIGHT_THRESHOLD /\ ~HasEdge(graph, edge)
        IN  /\ \A e \in DOMAIN graph.edges :
                e \in DOMAIN graph'.edges /\ graph'.edges[e] = graph.edges[e]
            /\ DOMAIN graph'.edges \ DOMAIN graph.edges = IF creates THEN {edge, back} ELSE {}
            /\ creates => graph'.edges[edge] = weight' /\ graph'.edges[back] = weight'

\* C9: no self-edge, one weight per unordered pair, and the first direction
\* read at or above the threshold sets the weight; no later read changes it.
C9_FirstDirectionWins ==
    /\ [](NoSelfEdges /\ OneWeightPerPair)
    /\ [][ReadKeepsFirstWeight]_vars

\* Entry (2, 1) was just read with a weight at or above the threshold that
\* differs from the one entry (1, 2) gave the edge, and the edge kept its weight.
C9_Witness ==
    /\ Len(graph.nodes) >= 2
    /\ pc \in {"weights", "zero_check"} /\ i = 2 /\ j = 2
    /\ weight >= WEIGHT_THRESHOLD
    /\ HasEdge(graph, <<TupleDoc(1), TupleDoc(2)>>)
    /\ graph.edges[<<TupleDoc(2), TupleDoc(1)>>] # weight
    /\ graph.edges[<<TupleDoc(2), TupleDoc(1)>>] >= WEIGHT_THRESHOLD

(* C7: when _set_graph_edge_weights has returned and no weight with i # j  *)
(* reached the threshold, the graph is complete, with weight exactly 1 on  *)
(* every edge and no self-edge; when some weight did reach the threshold   *)
(* the all-zero check changes nothing, so the edges keep the weights read. *)

CompleteWithUnitWeights(g) ==
    /\ DOMAIN g.edges = {<<u, v>> : u \in Range(g.nodes), v \in Range(g.nodes)}
                            \ {<<u, u>> : u \in Range(g.nodes)}
    /\ \A e \in DOMAIN g.edges : g.edges[e] = UnitWeight

\* C7: no weight at or above the threshold gives the complete graph of unit
\* weights; otherwise the all-zero check leaves the graph as the reads made it.
C7_DegeneracyFallback ==
    /\ [](pc = "weighted" /\ ~strongSeen => CompleteWithUnitWeights(graph))
    /\ [][pc = "zero_check" /\ strongSeen => graph' = graph]_vars

\* Three nodes, positive weights read, all below the threshold: the fallback ran.
C7_Witness ==
    /\ pc = "weighted" /\ ~strongSeen /\ weight > 0
    /\ Len(graph.nodes) = 3
    /\ Cardinality(DOMAIN graph.edges) = 6

(* C4 (as amended): summarize_corpus returns no document when the corpus   *)
(* is empty or fewer than 3 nodes are left after the unreachable nodes are *)
(* removed, and exactly floor(n * ratio) documents otherwise, duplicate    *)
(* documents included.                                                     *)

\* Which return summarize_corpus took.
ReturnedRanked == pc = "sc_done" /\ DOMAIN pagerank_scores # {}
NodesLeft == IF ReturnedRanked THEN Cardinality(DOMAIN pagerank_scores)
             ELSE Len(graph.nodes)

\* C4 (as amended): no document with an empty corpus or fewer than 3 nodes
\* left, floor(n * ratio) documents otherwise.
C4_LengthWhenRanked ==
    pc = "sc_done" =>
        /\ ReturnedRanked <=> (Len(corpus) > 0 /\ NodesLeft >= 3)
        /\ IF Len(corpus) = 0 \/ NodesLeft < 3
           THEN most_important_docs = <<>>
           ELSE Len(most_important_docs) = (Len(corpus) * ratio_value.num) \div ratio_value.den

\* A corpus with a duplicate document, three nodes left, and a proper part of
\* the corpus returned.
C4_Witness ==
    /\ ReturnedRanked
    /\ Cardinality(Range(corpus)) < Len(corpus)
    /\ Len(most_important_docs) = 3
    /\ Len(corpus) = 4

\* C4 as stated: floor(n * ratio) documents for every corpus.
C4_Original ==
    pc = "sc_done" =>
        Len(most_important_docs) = (Len(corpus) * ratio_value.num) \div ratio_value.den

(* C10: the documents summarize_corpus returns are the head of the corpus  *)
(* ordered by score descending, a document without a score counting as 0,  *)
(* and documents of equal score staying in corpus order.                   *)

\* The corpus by score level, highest first, each level in corpus order.
RECURSIVE ByLevel(_, _, _)
ByLevel(docs, scores, level) ==
    SelectSeq(docs, LAMBDA d : ScoreOf(scores, d) = level)
        \o (IF level = 0 THEN <<>> ELSE ByLevel(docs, scores, level - 1))

\* C10: the returned documents are the head of the corpus by score
\* descending, missing scores as 0, ties in corpus order.
C10_StableDescending ==
    ReturnedRanked =>
        LET expected == ByLevel(BuildHasheableCorpus(corpus), pagerank_scores, MaxScore)
        IN  /\ hashable_corpus = expected
            /\ Len(most_important_docs) <= Len(expected)
            /\ \A k \in 1..Len(most_important_docs) :
                    most_important_docs[k] = AsList(expected[k])

\* Two different documents tie on a positive score, a third was pruned and
\* counts as 0, and all of them are returned.
C10_Witness ==
    /\ ReturnedRanked
    /\ Len(most_important_docs) = Len(corpus)
    /\ \E d \in Range(hashable_corpus) : d \notin DOMAIN pagerank_scores
    /\ \E d, e \in DOMAIN pagerank_scores :
            d # e /\ pagerank_scores[d] = pagerank_scores[e] /\ pagerank_scores[d] > 0

(* C8 (as amended): the map from hashable document key to sentence is      *)
(* last-writer-wins: every ranked document is resolved to the latest       *)
(* sentence of the text whose document has that key.                       *)

\* The positions in the text of the sentences whose document has the key of doc.
SentencesOf(doc) == {k \in 1..Len(sentences) : AsTuple(corpus[k]) = AsTuple(doc)}

\* C8 (as amended): each ranked document is resolved to the latest sentence
\* with its key.
C8_LastWriterWins ==
    pc = "extracted" =>
        /\ Len(important_sentences) = Len(most_important_docs)
        /\ \A k \in 1..Len(most_important_docs) :
                important_sentences[k] = sentences[MaxOf(SentencesOf(most_important_docs[k]))]

\* Two sentences share a ranked document, and the later one was taken.
C8_Witness ==
    /\ pc = "extracted"
    /\ \E k \in 1..Len(most_important_docs) :
            /\ Cardinality(SentencesOf(most_important_docs[k])) >= 2
            /\ important_sentences[k].index > 0
            /\ \E m \in SentencesOf(most_important_docs[k]) :
                    sentences[m].index < important_sentences[k].index

\* C8 as stated: a ranked document is resolved to the earliest sentence of
\* the text whose document has that key.
C8_Original ==
    pc = "extracted" =>
        \A k \in 1..Len(most_important_docs) :
            \A m \in SentencesOf(most_important_docs[k]) :
                important_sentences[k].index <= sentences[m].index

(* C2: sentence-count selection returns distinct sentences, the top-ranked *)
(* one among them, exactly min(nb_sentences, number of distinct sentences  *)
(* in the ranked list) of them.                                            *)

\* C2: the top-ranked sentence is selected, the selected sentences are
\* distinct, and there are min(nb_sentences, distinct ranked sentences) of them.
C2_Original ==
    pc = "extracted" /\ word_count = None /\ nb_sentences # None =>
        /\ important_sentences[1] \in Range(extracted_sentences)
        /\ Cardinality(Range(extracted_sentences)) = Len(extracted_sentences)
        /\ Len(extracted_sentences) =
                Min(nb_sentences[1], Cardinality(Range(important_sentences)))

(* C3: word-count selection returns the prefix of the ranked list that     *)
(* ends before the first sentence whose inclusion does not strictly reduce *)
(* the distance between the running word count and the target.             *)

RECURSIVE StrictlyCloserPrefix(_, _, _)
StrictlyCloserPrefix(length, rest, wc) ==
    IF rest = <<>> THEN <<>>
    ELSE IF Abs(wc - length - WordsIn(Head(rest).text)) < Abs(wc - length)
         THEN <<Head(rest)>>
                \o StrictlyCloserPrefix(length + WordsIn(Head(rest).text), Tail(rest), wc)
         ELSE <<>>

\* C3: the selection is the prefix that ends before the first sentence that
\* does not strictly reduce the distance to the target word count.
C3_Original ==
    pc = "extracted" /\ word_count # None =>
        extracted_sentences = StrictlyCloserPrefix(0, important_sentences, word_count[1])

(* C5: a text of exactly one sentence makes summarize raise ValueError,    *)
(* whatever ratio, word_count, nb_sentences and split are, before a corpus *)
(* is built or ranked, and with no result.                                 *)

\* C5: with one sentence summarize has raised ValueError and built nothing.
C5_OneSentenceRaises ==
    Len(sentences) = 1 /\ pc # "summarize" =>
        /\ pc = "raised"
        /\ result = Raised
        /\ corpus = <<>> /\ hashable_corpus = <<>> /\ graph = NoGraph
        /\ pagerank_scores = NoScores /\ most_important_docs = <<>>
        /\ important_sentences = <<>> /\ extracted_sentences = <<>>

C5_Witness ==
    /\ pc = "raised" /\ Len(sentences) = 1
    /\ word_count # None /\ nb_sentences # None /\ split

(* C6: with no sentence, or with no document from summarize_corpus,        *)
(* summarize does not raise and returns the empty list when split is true  *)
(* and the empty string otherwise.                                         *)

EmptyAsRequested ==
    IF split THEN result = [kind |-> "list", value |-> <<>>]
    ELSE result = [kind |-> "str", value |-> <<>>]

\* C6: no sentence, or no ranked document, gives the empty result in the
\* format of split, and never the raise.
C6_DegenerateIsEmpty ==
    /\ Len(sentences) = 0 /\ pc # "summarize" => pc = "returned" /\ EmptyAsRequested
    /\ Len(sentences) >= 2 /\ pc = "returned" /\ most_important_docs = <<>> => EmptyAsRequested
    /\ most_important_docs = <<>> => pc \notin {"extract", "extracted"}
    /\ pc = "raised" => Len(sentences) = 1

\* Three nodes were ranked, floor(n * ratio) was 0, and the caller who asked
\* for a string got the empty string.
C6_Witness ==
    /\ pc = "returned" /\ ~split
    /\ DOMAIN pagerank_scores # {}
    /\ most_important_docs = <<>>
    /\ result = [kind |-> "str", value |-> <<>>]

(* C1: for the same input, summarize returns the list of the extracted     *)
(* sentences' display texts when split is true and their newline-joined    *)
(* string otherwise, and splitting that string on newline gives the list.  *)

\* str.split("\n")
RECURSIVE SplitLines(_, _)
SplitLines(line, rest) ==
    IF rest = <<>> THEN <<line>>
    ELSE IF Head(rest) = NEWLINE THEN <<line>> \o SplitLines(<<>>, Tail(rest))
    ELSE SplitLines(Append(line, Head(rest)), Tail(rest))

\* C1: the result is the formatted result of the extracted sentences, and the
\* string form split on newline is the list form.
C1_Original ==
    pc = "returned" /\ extracted_sentences # <<>> =>
        LET texts == [k \in 1..Len(extracted_sentences) |-> extracted_sentences[k].text]
        IN  /\ result = FormatResults(extracted_sentences, split)
            /\ split => result = [kind |-> "list", value |-> texts]
            /\ ~split => result.kind = "str" /\ SplitLines(<<>>, result.value) = texts

====
